---------------------------- MODULE Spec2Model ----------------------------
(***************************************************************************)
(* Performance-comparison engine of Music-Informatics: feature            *)
(* quantization and DTW scoring (src/dtw.py), note segmentation and pitch  *)
(* estimation (src/note_recognition.py).                                   *)
(*                                                                         *)
(* Numbers.  Onset times are integers in ticks of 0.1 s, so the default    *)
(* step_size 0.2 is 2 ticks.  Chroma values are integer numerators over    *)
(* the state variable `unit` (unit = 1: plain integers).  Strengths are    *)
(* numerators over Scale.strength, alpha is a numerator over Scale.alpha.  *)
(* Indices of arrays and path pairs are 0-based as in the Python code;     *)
(* TLA+ sequences are 1-based, so x[i] of the code is x[i + 1] here.       *)
(***************************************************************************)
EXTENDS Integers, Sequences, FiniteSets, TLC

VARIABLES
    sample_onset_times,      \* dtw.py: argument of compare_onsets_dtw*
    practice_onset_times,
    sample_onset_chroma,
    practice_onset_chroma,
    sample_onset_strength,   \* dtw.py: argument of compare_onsets_dtw_weighted
    practice_onset_strength,
    alpha,                   \* dtw.py:84, numerator over Scale.alpha
    unit,                    \* denominator of the chroma values
    build,                   \* which implementation of the fastdtw package is installed
    scipy,                   \* whether scipy's euclidean takes scalars or only vectors
    dtw_result,              \* what the comparison returned or raised
    arg_onset_times,         \* dtw.py:7, the arguments of create_chroma_sequence
    arg_chroma,
    arg_step_size,
    chroma_sequence,         \* what create_chroma_sequence returned or raised
    arg_data,                \* note_recognition.py:8, the sample buffer
    note_windows,            \* what notewindows returned or raised, and num_notes
    arg_freq,                \* note_recognition.py:80, the dominant frequency
    pitch_result,            \* what findpitch returned or raised
    arg_peaks,               \* note_recognition.py:30-31, the spectral peak of each segment
    notes,                   \* what piano_note_recognition plotted or raised
    stored,                  \* Interface.py:45-52, 86-98: what upload_file keeps per file type
    generated_files,         \* Interface.py:55, the list of generated files
    disk,                    \* the image files that exist
    buttons,                 \* Interface.py:256-309: whether the display buttons are shown
    icon_label,              \* Interface.py:37: the image on display
    root,                    \* Interface.py:12: the Tk root window, open or destroyed
    callback                 \* the handler that ran last and how it ended

dtwVars == <<sample_onset_times, practice_onset_times, sample_onset_chroma,
             practice_onset_chroma, sample_onset_strength,
             practice_onset_strength, alpha, unit, build, scipy, dtw_result>>

quantizeVars == <<arg_onset_times, arg_chroma, arg_step_size, chroma_sequence>>

segmentVars == <<arg_data, note_windows>>

pitchVars == <<arg_freq, pitch_result>>

notesVars == <<arg_peaks, notes>>

appVars == <<stored, generated_files, disk, buttons, icon_label, root, callback>>

vars == <<dtwVars, quantizeVars, segmentVars, pitchVars, notesVars, appVars>>

----------------------------------------------------------------------------
(* Small helpers.                                                          *)

Abs(v) == IF v < 0 THEN -v ELSE v

Min2(a, b) == IF a <= b THEN a ELSE b

SetMax(S) == CHOOSE m \in S : \A v \in S : v <= m

SetMin(S) == CHOOSE m \in S : \A v \in S : m <= v

SeqMax(s) == SetMax({s[k] : k \in 1..Len(s)})

\* All sequences over S of length lo..hi.
SeqsOf(S, lo, hi) == UNION {[1..n -> S] : n \in lo..hi}

----------------------------------------------------------------------------
(* Feature quantizer: create_chroma_sequence, dtw.py:7-34.                 *)

\* dtw.py:7, the default step_size = 0.2 s, in ticks of 0.1 s.
DefaultStep == 2

\* np.ceil(a / b) for b > 0.
CeilDiv(a, b) == -((-a) \div b)

\* int(a / b) for b > 0: truncation toward zero.
TruncDiv(a, b) == IF a >= 0 THEN a \div b ELSE -((-a) \div b)

\* dtw.py:23
NumSteps(onset_times, step_size) == CeilDiv(SeqMax(onset_times), step_size) + 1

\* A variant that rounds the bucket up instead of truncating.
BucketIndex_RoundUp(onset, step_size) == CeilDiv(onset, step_size)

\* dtw.py:30
BucketIndex(onset, step_size) == TruncDiv(onset, step_size)

\* A variant that keeps the last bucket free.
InRange_Tight(index, num_steps) == index < num_steps - 1

\* dtw.py:31, the in-range guard (a negative index passes it, as in Python).
InRange(index, num_steps) == index < num_steps

\* Python's a[index] = v for a list of length n: a negative index counts from
\* the end.  (An index below -n raises; the guard of line 31 lets it through.)
PyPos(index, n) == IF index >= 0 THEN index + 1 ELSE n + index + 1

\* dtw.py:29-32, the loop over zip(onset_times, chroma), pairs k..n in order.
RECURSIVE FillSequence(_, _, _, _, _, _)
FillSequence(seq, onset_times, chroma, step_size, k, n) ==
    IF k > n THEN seq
    ELSE LET index == BucketIndex(onset_times[k], step_size)
             pos   == PyPos(index, Len(seq))
             next  == IF InRange(index, Len(seq)) /\ pos \in 1..Len(seq)
                      THEN [seq EXCEPT ![pos] = chroma[k]]
                      ELSE seq
         IN  FillSequence(next, onset_times, chroma, step_size, k + 1, n)

\* dtw.py:7-34.  max() of an empty sequence raises ValueError (line 22):
\* callers test Raises first.
QuantizeRaises(onset_times) == Len(onset_times) = 0

create_chroma_sequence(onset_times, chroma, step_size) ==
    LET num_steps == NumSteps(onset_times, step_size)
        zeros     == [k \in 1..num_steps |-> 0]
    IN  FillSequence(zeros, onset_times, chroma, step_size, 1,
                     Min2(Len(onset_times), Len(chroma)))

NotQuantized == [outcome |-> "none", sequence |-> <<>>]

\* The action: one call of create_chroma_sequence on the stored arguments.
\* max() of an empty list raises ValueError (dtw.py:22).
Quantize ==
    /\ chroma_sequence.outcome = "none"
    /\ chroma_sequence' =
          IF QuantizeRaises(arg_onset_times)
          THEN [outcome |-> "ValueError", sequence |-> <<>>]
          ELSE [outcome |-> "ok",
                sequence |-> create_chroma_sequence(arg_onset_times, arg_chroma,
                                                    arg_step_size)]
    /\ UNCHANGED <<arg_onset_times, arg_chroma, arg_step_size, dtwVars, segmentVars,
                   pitchVars, notesVars, appVars>>

\* The quantizer is not under test.
IdleQuantize ==
    /\ arg_onset_times = <<>>
    /\ arg_chroma = <<>>
    /\ arg_step_size = DefaultStep
    /\ chroma_sequence = NotQuantized

----------------------------------------------------------------------------
(* The onset segmenter of note_recognition.py.  Amplitudes are integers    *)
(* (numerators over a common denominator), so 0.2 * m and 0.04 * m are     *)
(* compared as 5 * v > m and 25 * v < m.                                   *)

\* note_recognition.py:68-74, the half-window of 50 samples.
HalfWindow == 50

\* note_recognition.py:70, 74: max(abs(data[i-50:i+50])), the 100 samples
\* i-50 .. i+49.
LocalMax(data, i) == SetMax({Abs(data[k + 1]) : k \in (i - HalfWindow)..(i + HalfWindow - 1)})

\* note_recognition.py:62, threshup = 0.2 * max(data); line 70, v > threshup.
AboveThreshup(v, m) == 5 * v > m

\* note_recognition.py:63, threshdown = 0.04 * max(data); line 74, v < threshdown.
BelowThreshdown(v, m) == 25 * v < m

\* note_recognition.py:68-76, the loop from index i on, taken from one
\* boundary to the next: while quiet, the indices up to the first one above
\* threshup change nothing, and likewise for threshdown.  m is max(data), the
\* largest sample with its sign.
RECURSIVE ScanFrom(_, _, _, _, _)
ScanFrom(data, m, i, quiet, divs) ==
    LET crossings == {k \in i..(Len(data) - HalfWindow - 1) :
                         IF quiet THEN AboveThreshup(LocalMax(data, k), m)
                         ELSE BelowThreshdown(LocalMax(data, k), m)}
    IN  IF crossings = {} THEN divs
        ELSE LET k == SetMin(crossings)
             IN  ScanFrom(data, m, k + 1, ~quiet, Append(divs, k))

\* note_recognition.py:62, max() of an empty array raises ValueError.
NoteparseRaises(data) == Len(data) = 0

\* note_recognition.py:58-78.
noteparse(data) == ScanFrom(data, SeqMax(data), HalfWindow, TRUE, <<>>)

\* A variant that adds the two boundaries of a pair and forgets to halve.
notewindows_Summed(data) ==
    LET divs == noteparse(data)
        d2   == <<0>> \o divs \o <<Len(data)>>
    IN  [k \in 1..(Len(d2) \div 2) |-> d2[2 * k - 1] + d2[2 * k]]

\* note_recognition.py:48-56: d2 = [0] + divs + [len(data)], and the midpoint
\* of every second pair d2[0], d2[1]; d2[2], d2[3]; ...
notewindows(data) ==
    LET divs == noteparse(data)
        d2   == <<0>> \o divs \o <<Len(data)>>
    IN  [k \in 1..(Len(d2) \div 2) |-> (d2[2 * k - 1] + d2[2 * k]) \div 2]

NoWindows == [outcome |-> "none", w |-> <<>>, num_notes |-> 0]

\* A variant that takes every window start for a note.
NoteWindows_CountAll ==
    /\ note_windows.outcome = "none"
    /\ note_windows' =
          IF NoteparseRaises(arg_data)
          THEN [NoWindows EXCEPT !.outcome = "ValueError"]
          ELSE LET w == notewindows(arg_data)
               IN  [outcome |-> "ok", w |-> w, num_notes |-> Len(w)]
    /\ UNCHANGED <<arg_data, dtwVars, quantizeVars, pitchVars, notesVars, appVars>>

\* The action: the segmentation of piano_note_recognition, lines 11 and 17.
NoteWindows ==
    /\ note_windows.outcome = "none"
    /\ note_windows' =
          IF NoteparseRaises(arg_data)
          THEN [NoWindows EXCEPT !.outcome = "ValueError"]
          ELSE LET w == notewindows(arg_data)
               IN  [outcome |-> "ok", w |-> w, num_notes |-> Len(w) - 1]
    /\ UNCHANGED <<arg_data, dtwVars, quantizeVars, pitchVars, notesVars, appVars>>

\* The segmenter is not under test.
IdleSegment ==
    /\ arg_data = <<>>
    /\ note_windows = NoWindows

----------------------------------------------------------------------------
(* The pitch estimator of note_recognition.py.  A frequency is an integer  *)
(* number of 0.0001 Hz.  Doubling and halving a float are exact, so the    *)
(* frequency helpfindoctave holds after its calls is freq / 2^o, kept here *)
(* as its integer part and whether it has a fractional part.               *)

\* note_recognition.py:87, 88: 254.284 Hz.
BandLow == 2542840

\* note_recognition.py:87: 508.5675 Hz.
BandHigh == 5085675

\* note_recognition.py:95-117, the lower edge of each bin and the upper edge
\* of the last one, 508.567 Hz.
BinEdges ==
    <<2542840, 2694045, 2854240, 3023960, 3203775, 3394280, 3596110,
      3809945, 4036500, 4276525, 4530820, 4800235, 5085670>>

\* The frames helpfindoctave may stack before the interpreter raises
\* RecursionError.  (Python's default is 1000; the model's frequencies need
\* at most 22 calls when they converge.)
RecursionLimit == 30

RECURSIVE Pow2(_)
Pow2(n) == IF n = 0 THEN 1 ELSE 2 * Pow2(n - 1)

\* freq / 2**o (note_recognition.py:83, 90, 92).
Shifted(freq, o) ==
    IF o <= 0 THEN [whole |-> freq * Pow2(-o), exact |-> TRUE]
    ELSE [whole |-> freq \div Pow2(o), exact |-> freq % Pow2(o) = 0]

\* f < t and f <= t for a threshold t of whole units.
Less(f, t) == f.whole < t

AtMost(f, t) == f.whole < t \/ (f.whole = t /\ f.exact)

\* note_recognition.py:86-92, the call helpfindoctave(freq / 2**o, o) at the
\* given stack depth.
RECURSIVE helpfindoctave(_, _, _)
helpfindoctave(freq, o, depth) ==
    LET f == Shifted(freq, o)
    IN  IF depth > RecursionLimit THEN [raised |-> TRUE, o |-> o, calls |-> depth - 1]
        ELSE IF ~Less(f, BandLow) /\ AtMost(f, BandHigh)
             THEN [raised |-> FALSE, o |-> o, calls |-> depth]
        ELSE IF Less(f, BandLow) THEN helpfindoctave(freq, o - 1, depth + 1)
        ELSE helpfindoctave(freq, o + 1, depth + 1)

\* note_recognition.py:94-120: the bin k with edge k <= f < edge k + 1, or 0
\* where the function raises ValueError.
choosepitch(f) ==
    LET bins == {k \in 1..12 : ~Less(f, BinEdges[k]) /\ Less(f, BinEdges[k + 1])}
    IN  IF bins = {} THEN 0 ELSE SetMin(bins)

NoPitch == [outcome |-> "none", normalization |-> "none", pitch |-> 0, octave |-> 0,
            calls |-> 0]

\* A variant whose octave counter runs the other way: down for a halving, up
\* for a doubling.
findpitch_Mirrored(freq) ==
    LET r == helpfindoctave(freq, 0, 1)
        pitch == choosepitch(Shifted(freq, r.o))
    IN  IF r.raised
        THEN [NoPitch EXCEPT !.outcome = "RecursionError",
                             !.normalization = "RecursionError", !.calls = r.calls]
        ELSE IF pitch = 0
        THEN [NoPitch EXCEPT !.outcome = "ValueError", !.normalization = "in_band",
                             !.octave = -r.o, !.calls = r.calls]
        ELSE [outcome |-> "ok", normalization |-> "in_band", pitch |-> pitch,
              octave |-> -r.o, calls |-> r.calls]

\* note_recognition.py:80-84.
findpitch(freq) ==
    LET r == helpfindoctave(freq, 0, 1)
        pitch == choosepitch(Shifted(freq, r.o))
    IN  IF r.raised
        THEN [NoPitch EXCEPT !.outcome = "RecursionError",
                             !.normalization = "RecursionError", !.calls = r.calls]
        ELSE IF pitch = 0
        THEN [NoPitch EXCEPT !.outcome = "ValueError", !.normalization = "in_band",
                             !.octave = r.o, !.calls = r.calls]
        ELSE [outcome |-> "ok", normalization |-> "in_band", pitch |-> pitch,
              octave |-> r.o, calls |-> r.calls]

\* The action: one call of findpitch on the stored frequency.
FindPitch ==
    /\ pitch_result.outcome = "none"
    /\ pitch_result' = findpitch(arg_freq)
    /\ UNCHANGED <<arg_freq, dtwVars, quantizeVars, segmentVars, notesVars, appVars>>

\* The pitch estimator is not under test.
IdlePitch ==
    /\ arg_freq = 0
    /\ pitch_result = NoPitch

----------------------------------------------------------------------------
(* piano_note_recognition, note_recognition.py:6-46: segmentation, then    *)
(* one pass of the loop of lines 20-43 per note.  The spectrum of a        *)
(* segment is not computed here: the frequency I of its largest FFT bin    *)
(* (lines 26-31) is the input arg_peaks[i + 1], between 0 and Fs / 2.      *)

\* note_recognition.py:8, librosa.load(filename) resamples to its default
\* rate of 22050 Hz.
Fs == 22050

\* note_recognition.py:123, nyquist = 0.5 * Fs, in units of 0.0001 Hz.
Nyquist == 5000 * Fs

\* note_recognition.py:36, the half-width 0.1 Hz of the pass band.
PassHalfWidth == 1000

\* note_recognition.py:122-128 as called at line 36: butter() raises
\* ValueError unless 0 < low and high < 1, the band edges over nyquist.
BandpassRaises(I) == I - PassHalfWidth <= 0 \/ I + PassHalfWidth >= Nyquist

\* note_recognition.py:43, pitch + 12 * (octave + 4).
NoteNumber(pitch, octave) == pitch + 12 * (octave + 4)

NoNotes == [outcome |-> "none", raised_by |-> "none", num_notes |-> 0, onsets |-> <<>>, pitches |-> <<>>]

\* note_recognition.py:20-46, the loop from note i on.  Nothing catches an
\* exception of bandpass_filter or findpitch: it leaves the function, and
\* the lists built so far go with it.  Onsets are kept in samples (w[i],
\* over Fs in the code).
RECURSIVE NoteLoop(_, _, _, _, _)
NoteLoop(w, peaks, i, onsets, pitches) ==
    IF i = Len(w) - 1
    THEN [outcome |-> "ok", raised_by |-> "none", num_notes |-> Len(w) - 1, onsets |-> onsets, pitches |-> pitches]
    ELSE LET I == peaks[i + 1]
             r == findpitch(I)
         IN  IF BandpassRaises(I)
             THEN [NoNotes EXCEPT !.outcome = "ValueError", !.raised_by = "bandpass_filter", !.num_notes = Len(w) - 1]
             ELSE IF r.outcome # "ok"
             THEN [NoNotes EXCEPT !.outcome = r.outcome, !.raised_by = "findpitch", !.num_notes = Len(w) - 1]
             ELSE NoteLoop(w, peaks, i + 1, Append(onsets, w[i + 1]), Append(pitches, NoteNumber(r.pitch, r.octave)))

\* note_recognition.py:6-46.
piano_note_recognition(data, peaks) ==
    IF NoteparseRaises(data)
    THEN [NoNotes EXCEPT !.outcome = "ValueError", !.raised_by = "noteparse"]
    ELSE NoteLoop(notewindows(data), peaks, 0, <<>>, <<>>)

\* The action: one run of piano_note_recognition.
PianoNoteRecognition ==
    /\ notes.outcome = "none"
    /\ notes' = piano_note_recognition(arg_data, arg_peaks)
    /\ UNCHANGED <<arg_data, arg_peaks, note_windows, dtwVars, quantizeVars, pitchVars, appVars>>

\* piano_note_recognition is not under test.
IdleNotes ==
    /\ arg_peaks = <<>>
    /\ notes = NoNotes

----------------------------------------------------------------------------
(* fastdtw(x, y, dist = |a - b|) with the package's default radius 1, as    *)
(* called at dtw.py:51 and dtw.py:105.  The package ships two              *)
(* implementations with the same recursion and a different choice among    *)
(* equal predecessor costs; which one runs is decided when the package is  *)
(* installed (the C extension if it compiled, else the Python module):     *)
(*   "py": min((up), (left), (corner), key = cost), the first minimum:     *)
(*         up (i-1, j), then left (i, j-1), then corner (i-1, j-1);        *)
(*   "c":  up if strictly below both, else left if strictly below corner,  *)
(*         else corner.                                                    *)
(* `build` holds the choice.                                               *)

Builds == {"py", "c"}

\* scipy.spatial.distance.euclidean, handed two scalars as fastdtw does at
\* dtw.py:105: older releases take them as vectors of one element ("lenient"),
\* newer ones raise ValueError, Input vector should be 1-D ("strict").  The
\* call of dtw.py:51 wraps the scalars in lists and works with both.
ScipyBuilds == {"lenient", "strict"}

\* The radius fastdtw uses when the caller passes none (dtw.py:51, 105).
Radius == 1

\* A cost: a number or float('inf').
Fin(v) == [inf |-> FALSE, v |-> v]

Infinite == [inf |-> TRUE, v |-> 0]

Lt(a, b) == IF a.inf THEN FALSE ELSE IF b.inf THEN TRUE ELSE a.v < b.v

Plus(a, dt) == IF a.inf THEN a ELSE Fin(a.v + dt)

\* The cost table D: cells (i, j), 1-based as in the package, never written
\* read as infinite.
CostAt(D, i, j) == IF <<i, j>> \in DOMAIN D THEN D[<<i, j>>].cost ELSE Infinite

\* The predecessor the "py" implementation keeps.
PickPy(up, left, corner) ==
    IF ~Lt(left, up) /\ ~Lt(corner, up) THEN "up"
    ELSE IF ~Lt(corner, left) THEN "left"
    ELSE "corner"

\* The predecessor the "c" implementation keeps.
PickC(up, left, corner) ==
    IF Lt(up, left) /\ Lt(up, corner) THEN "up"
    ELSE IF Lt(left, corner) THEN "left"
    ELSE "corner"

Pick(b, up, left, corner) ==
    IF b = "py" THEN PickPy(up, left, corner) ELSE PickC(up, left, corner)

\* A variant that keeps the sign of the difference.
euclidean_Signed(a, b) == a - b

\* The local distance: dist = lambda x, y: euclidean([x], [y]) at dtw.py:51,
\* euclidean on two scalars at dtw.py:105 and 111.
euclidean(a, b) == Abs(a - b)

\* One cell of the table: its cost and the predecessor it came from.
Cell(D, x, y, i, j, b) ==
    LET dt     == euclidean(x[i], y[j])
        up     == CostAt(D, i - 1, j)
        left   == CostAt(D, i, j - 1)
        corner == CostAt(D, i - 1, j - 1)
        which  == Pick(b, up, left, corner)
    IN  IF which = "up" THEN [cost |-> Plus(up, dt), pi |-> i - 1, pj |-> j]
        ELSE IF which = "left" THEN [cost |-> Plus(left, dt), pi |-> i, pj |-> j - 1]
        ELSE [cost |-> Plus(corner, dt), pi |-> i - 1, pj |-> j - 1]

\* The table after the cells k.. of the window (a sequence of 0-based cells,
\* in the order the package visits them).
RECURSIVE FillTable(_, _, _, _, _, _)
FillTable(D, x, y, window, k, b) ==
    IF k > Len(window) THEN D
    ELSE LET i == window[k][1] + 1
             j == window[k][2] + 1
             Dn == (<<i, j>> :> Cell(D, x, y, i, j, b)) @@ D
         IN  \* the test makes TLC build the table before it goes on
             IF DOMAIN Dn = {} THEN Dn
             ELSE FillTable(Dn, x, y, window, k + 1, b)

\* The walk back from (len_x, len_y) to (0, 0); the path holds 0-based pairs,
\* last pair first.  Reading the predecessor of a cell never written raises
\* in the package: the walk then ends with the marker pair (-1, -1).
RECURSIVE WalkBack(_, _, _, _)
WalkBack(D, i, j, fuel) ==
    IF i = 0 /\ j = 0 THEN <<>>
    ELSE IF <<i, j>> \notin DOMAIN D \/ fuel = 0 THEN << <<-1, -1>> >>
    ELSE << <<i - 1, j - 1>> >> \o WalkBack(D, D[<<i, j>>].pi, D[<<i, j>>].pj, fuel - 1)

\* A variant that leaves the walk in the order it was made.
Reverse_Kept(s) == s

Reverse(s) == [k \in 1..Len(s) |-> s[Len(s) + 1 - k]]

\* Every cell, row by row: the window of a full dtw.
FullWindow(len_x, len_y) ==
    [k \in 1..(len_x * len_y) |-> <<(k - 1) \div len_y, (k - 1) % len_y>>]

\* __dtw(x, y, window, dist): the distance (a cost) and the path.
dtw_windowed(x, y, window, b) ==
    LET D0   == (<<0, 0>> :> [cost |-> Fin(0), pi |-> 0, pj |-> 0])
        D    == FillTable(D0, x, y, window, 1, b)
        back == WalkBack(D, Len(x), Len(y), Len(x) + Len(y) + 1)
    IN  [distance |-> CostAt(D, Len(x), Len(y)), path |-> Reverse(back)]

\* __reduce_by_half(x) keeps (x[2k] + x[2k+1]) / 2.  Both series are halved
\* together and only the path of the coarser level is used, so the model
\* keeps the sums: both coarse series are twice the package's, every cost
\* of that level is doubled, and every comparison of costs is unchanged.
reduce_by_half(x) == [k \in 1..(Len(x) \div 2) |-> x[2 * k - 1] + x[2 * k]]

\* __expand_window, first half: the cells within `radius` of the path ...
PathNeighbours(path, radius) ==
    {<<path[k][1] + a, path[k][2] + c>> :
        k \in 1..Len(path), a \in (-radius)..radius, c \in (-radius)..radius}

\* ... each blown up to the four cells it covers at the finer level.
Blown(cells) ==
    UNION {{<<2 * c[1], 2 * c[2]>>, <<2 * c[1], 2 * c[2] + 1>>,
            <<2 * c[1] + 1, 2 * c[2]>>, <<2 * c[1] + 1, 2 * c[2] + 1>>} : c \in cells}

\* __expand_window, second half, row i scanned from start_j: the first cell
\* of the row in the set and the cells that follow it without a gap.
RowFirst(W, i, start_j, len_y) ==
    LET hits == {j \in start_j..(len_y - 1) : <<i, j>> \in W}
    IN  IF hits = {} THEN -1 ELSE SetMin(hits)

RowLast(W, i, first, len_y) ==
    SetMax({j \in first..(len_y - 1) : \A m \in first..j : <<i, m>> \in W})

\* Rows i.. of the window.  A row with no cell leaves start_j = None, and the
\* next row's range(None, len_y) raises: the window then ends with (-1, -1).
RECURSIVE WindowRows(_, _, _, _, _)
WindowRows(W, i, start_j, len_x, len_y) ==
    IF i >= len_x THEN <<>>
    ELSE IF start_j < 0 THEN << <<-1, -1>> >>
    ELSE LET first == RowFirst(W, i, start_j, len_y)
         IN  IF first < 0 THEN WindowRows(W, i + 1, -1, len_x, len_y)
             ELSE LET last == RowLast(W, i, first, len_y)
                  IN  [k \in 1..(last - first + 1) |-> <<i, first + k - 1>>]
                      \o WindowRows(W, i + 1, first, len_x, len_y)

expand_window(path, len_x, len_y, radius) ==
    WindowRows(Blown(PathNeighbours(path, radius)), 0, 0, len_x, len_y)

Broken(cells) == \E k \in 1..Len(cells) : cells[k][1] < 0

\* __fastdtw(x, y, radius, dist).
RECURSIVE fastdtw_rec(_, _, _, _)
fastdtw_rec(x, y, radius, b) ==
    IF Len(x) < radius + 2 \/ Len(y) < radius + 2
    THEN dtw_windowed(x, y, FullWindow(Len(x), Len(y)), b)
    ELSE LET coarse == fastdtw_rec(reduce_by_half(x), reduce_by_half(y), radius, b)
             window == expand_window(coarse.path, Len(x), Len(y), radius)
         IN  IF Broken(coarse.path) \/ Broken(window)
             THEN [distance |-> Infinite, path |-> << <<-1, -1>> >>]
             ELSE dtw_windowed(x, y, window, b)

\* fastdtw(x, y, dist = ...) as the callers use it: (distance, path).
fastdtw(x, y, b) == fastdtw_rec(x, y, Radius, b)

----------------------------------------------------------------------------
(* The comparison entry points of dtw.py.                                  *)

\* Denominators of the fixed-point numbers of the model.
Scale == [alpha |-> 10, strength |-> 2, factor |-> 4]

\* dtw.py:84, the default alpha = 0.1, over Scale.alpha.
DefaultAlpha == 1

NoResult ==
    [op |-> "none", outcome |-> "none", distance |-> 0, path |-> <<>>,
     sample_sequence |-> <<>>, practice_sequence |-> <<>>,
     sample_strength_sequence |-> <<>>, practice_strength_sequence |-> <<>>]

\* compare_onsets_dtw, dtw.py:38-52 (the plot of lines 54-79 changes nothing
\* the function returns).  The distance is a numerator over `unit`.
compare_onsets_dtw(s_times, p_times, s_chroma, p_chroma, b) ==
    IF QuantizeRaises(s_times) \/ QuantizeRaises(p_times)
    THEN [NoResult EXCEPT !.op = "dtw", !.outcome = "ValueError"]
    ELSE LET sample_sequence   == create_chroma_sequence(s_times, s_chroma, DefaultStep)
             practice_sequence == create_chroma_sequence(p_times, p_chroma, DefaultStep)
             r == fastdtw(sample_sequence, practice_sequence, b)
         IN  [NoResult EXCEPT !.op = "dtw", !.outcome = "ok",
                              !.distance = r.distance.v, !.path = r.path,
                              !.sample_sequence = sample_sequence,
                              !.practice_sequence = practice_sequence]

\* The denominator of a weighted distance: avg_strength is (sa + sb) / 2 over
\* Scale.strength, alpha is over Scale.alpha.
WeightDen == 2 * Scale.strength * Scale.alpha

\* A variant that damps a step by its strength instead of amplifying it.
weighted_distance_Damped(a, b, sa, sb, al) ==
    euclidean(a, b) * (WeightDen - al * (sa + sb))

\* dtw.py:110-112, one step of the path, as a numerator over WeightDen:
\* distance * (1 + alpha * avg_strength).
weighted_distance(a, b, sa, sb, al) ==
    euclidean(a, b) * (WeightDen + al * (sa + sb))

\* A variant that overwrites the total with each step instead of adding to
\* it, so that the last step is all that is left.
WeightedSum_Overwritten(path, k, x, y, sx, sy, al) ==
    LET i == path[Len(path)][1] + 1
        j == path[Len(path)][2] + 1
    IN  IF k > Len(path) THEN 0 ELSE weighted_distance(x[i], y[j], sx[i], sy[j], al)

\* dtw.py:108-113, the loop over the path, steps k.. .
RECURSIVE WeightedSum(_, _, _, _, _, _, _)
WeightedSum(path, k, x, y, sx, sy, al) ==
    IF k > Len(path) THEN 0
    ELSE LET i == path[k][1] + 1
             j == path[k][2] + 1
         IN  weighted_distance(x[i], y[j], sx[i], sy[j], al)
             + WeightedSum(path, k + 1, x, y, sx, sy, al)

\* Whether every index of the path can be read in an array of these lengths.
IndicesInRange(path, len_x, len_y) ==
    \A k \in 1..Len(path) :
        /\ path[k][1] \in 0..(len_x - 1)
        /\ path[k][2] \in 0..(len_y - 1)

\* compare_onsets_dtw_weighted, dtw.py:82-115.  The distance is a numerator
\* over unit * WeightDen.
compare_onsets_dtw_weighted(s_times, s_strength, s_chroma, p_times, p_strength, p_chroma, al, b, sp) ==
    IF QuantizeRaises(s_times) \/ QuantizeRaises(p_times)
    THEN [NoResult EXCEPT !.op = "weighted", !.outcome = "ValueError"]
    ELSE LET sample_sequence   == create_chroma_sequence(s_times, s_chroma, DefaultStep)
             practice_sequence == create_chroma_sequence(p_times, p_chroma, DefaultStep)
             sample_strength_sequence ==
                 create_chroma_sequence(s_times, s_strength, DefaultStep)
             practice_strength_sequence ==
                 create_chroma_sequence(p_times, p_strength, DefaultStep)
             path == fastdtw(sample_sequence, practice_sequence, b).path
             quantized == [NoResult EXCEPT !.op = "weighted",
                          !.sample_sequence = sample_sequence,
                          !.practice_sequence = practice_sequence,
                          !.sample_strength_sequence = sample_strength_sequence,
                          !.practice_strength_sequence = practice_strength_sequence]
             seqs == [quantized EXCEPT !.path = path]
         IN  IF sp = "strict"
             THEN [quantized EXCEPT !.outcome = "ValueError"]
             ELSE IF ~IndicesInRange(path, Len(sample_strength_sequence),
                                Len(practice_strength_sequence))
                \/ ~IndicesInRange(path, Len(sample_sequence), Len(practice_sequence))
             THEN [seqs EXCEPT !.outcome = "IndexError"]
             ELSE [seqs EXCEPT !.outcome = "ok",
                       !.distance = WeightedSum(path, 1, sample_sequence,
                                        practice_sequence, sample_strength_sequence,
                                        practice_strength_sequence, al)]

\* The action: one call of compare_onsets_dtw on the stored arguments.
CompareOnsetsDtw ==
    /\ dtw_result.op = "none"
    /\ dtw_result' = compare_onsets_dtw(sample_onset_times, practice_onset_times,
                                        sample_onset_chroma, practice_onset_chroma, build)
    /\ UNCHANGED <<sample_onset_times, practice_onset_times, sample_onset_chroma,
                   practice_onset_chroma, sample_onset_strength,
                   practice_onset_strength, alpha, unit, build, scipy,
                   quantizeVars, segmentVars, pitchVars, notesVars, appVars>>

\* The action: one call of compare_onsets_dtw_weighted on the stored arguments.
CompareOnsetsDtwWeighted ==
    /\ dtw_result.op = "none"
    /\ dtw_result' = compare_onsets_dtw_weighted(
                         sample_onset_times, sample_onset_strength, sample_onset_chroma,
                         practice_onset_times, practice_onset_strength,
                         practice_onset_chroma, alpha, build, scipy)
    /\ UNCHANGED <<sample_onset_times, practice_onset_times, sample_onset_chroma,
                   practice_onset_chroma, sample_onset_strength,
                   practice_onset_strength, alpha, unit, build, scipy,
                   quantizeVars, segmentVars, pitchVars, notesVars, appVars>>

\* The scorer is not under test.
IdleDtw ==
    /\ sample_onset_times = <<>>
    /\ practice_onset_times = <<>>
    /\ sample_onset_chroma = <<>>
    /\ practice_onset_chroma = <<>>
    /\ sample_onset_strength = <<>>
    /\ practice_onset_strength = <<>>
    /\ alpha = DefaultAlpha
    /\ unit = 1
    /\ build = "c"
    /\ scipy = "lenient"
    /\ dtw_result = NoResult

----------------------------------------------------------------------------
(* The application window, Interface.py.  Every button and the close box   *)
(* runs one handler; an exception that leaves a handler is reported by Tk  *)
(* and the window goes on.  What the audio libraries return for a file     *)
(* (waveform image, onsets, dominant pitch per onset) is given per file    *)
(* by Waveform and Recording below.  An image file is a record of the      *)
(* name it is built from; None stands for Python's None.                   *)

FileTypes == {"Sample", "Practice"}

File(base, kind, stamp) == [base |-> base, kind |-> kind, stamp |-> stamp]

None == File("", "None", 0)

\* Interface.py:67, what the file dialog returns when it is dismissed.
NoFile == ""

\* The audio files the user can pick: two onsets, one onset, no onset, and a
\* file pydub cannot read.
AudioFiles == {"tune", "note", "silent", "broken"}

\* audio_recognition.py:34, int(time.time()) at the moment of the upload.
Stamps == {1, 2}

\* The longest list of generated files the model follows.
MaxTracked == 3

\* Ticks of onset time in a second, and so the denominator of a chroma value
\* in this part of the model.
AppScale == [second |-> 10]

\* audio_onset_detection.py:89-118 and 120-153: the onset times (ticks), the
\* normalized strengths and the dominant pitch class at each onset.  Every
\* onset frame lies inside the chroma matrix, so line 139 retains them all.
Recording(file_path) ==
    IF file_path = "tune" THEN [times |-> <<2, 7>>, strength |-> <<2, 1>>, melody |-> <<4, 7>>]
    ELSE IF file_path = "note" THEN [times |-> <<3>>, strength |-> <<2>>, melody |-> <<9>>]
    ELSE [times |-> <<>>, strength |-> <<>>, melody |-> <<>>]

\* audio_recognition.py:9-53, generate_waveform_plot: the image it saves, or
\* None when anything in it raises.
generate_waveform_plot(file_path, stamp) ==
    IF file_path = "broken" THEN None ELSE File(file_path, "waveform", stamp)

\* audio_onset_detection.py:114, np.max of no strengths raises ValueError.
ExtractRaises(file_path) == Len(Recording(file_path).times) = 0

\* audio_onset_detection.py:153, (valid_onset_times, onset_melody).
extract_chroma_at_custom_onsets(file_path) ==
    <<Recording(file_path).times, Recording(file_path).melody>>

NothingStored ==
    [audio_path |-> NoFile, plot_path |-> None, onset_plot |-> None,
     onset_times |-> <<>>, onset_strength |-> <<>>, onset_chroma |-> <<<<>>, <<>>>>]

NoCallback == [handler |-> "none", outcome |-> "none"]

Ran(handler, outcome) == [handler |-> handler, outcome |-> outcome]

\* The files a list of entries names.
Tracked(files) == {files[k] : k \in 1..Len(files)}

\* Interface.py:61-106, upload_file(file_type) with the file the dialog
\* returned.
UploadFile ==
    \E file_type \in FileTypes, file_path \in AudioFiles \cup {NoFile}, stamp \in Stamps :
        LET plot_path == generate_waveform_plot(file_path, stamp)
            kept == [stored[file_type] EXCEPT
                        !.audio_path = file_path, !.plot_path = plot_path,
                        !.onset_times = Recording(file_path).times,
                        !.onset_strength = Recording(file_path).strength,
                        !.onset_chroma = extract_chroma_at_custom_onsets(file_path)]
            after == [stored EXCEPT ![file_type] = kept]
            chosen == file_path # NoFile
            plotted == chosen /\ plot_path # None
            raised == plotted /\ ExtractRaises(file_path)
        IN  /\ root = "open"
            /\ Len(generated_files) < MaxTracked
            /\ generated_files' = IF chosen THEN Append(generated_files, plot_path) ELSE generated_files
            /\ disk' = IF plotted THEN disk \cup {plot_path} ELSE disk
            /\ stored' = IF plotted /\ ~raised THEN after ELSE stored
            /\ buttons' = IF plotted /\ ~raised /\ \A t \in FileTypes : after[t].audio_path # NoFile
                          THEN TRUE ELSE buttons
            /\ callback' = Ran("upload_file", IF raised THEN "ValueError" ELSE "ok")
            /\ UNCHANGED <<icon_label, root, dtwVars, quantizeVars, segmentVars, pitchVars, notesVars>>

\* Interface.py:111-124, display_waveform(file_type).
DisplayWaveform ==
    \E file_type \in FileTypes :
        /\ root = "open"
        /\ buttons
        /\ icon_label' = IF stored[file_type].plot_path # None
                         THEN stored[file_type].plot_path ELSE icon_label
        /\ callback' = Ran("display_waveform", "ok")
        /\ UNCHANGED <<stored, generated_files, disk, buttons, root, dtwVars, quantizeVars, segmentVars, pitchVars, notesVars>>

\* Interface.py:127-154, display_onsets(file_type).  plot_onsets
\* (audio_onset_detection.py:41-87) returns the image if it is there already,
\* else draws it, or returns None when that raises.
DisplayOnsets ==
    \E file_type \in FileTypes, drawn \in BOOLEAN :
        LET output_plot == File(stored[file_type].audio_path, "onsets_plot", 0)
            plot_path == IF output_plot \in disk \/ drawn THEN output_plot ELSE None
        IN  /\ root = "open"
            /\ Len(generated_files) < MaxTracked
            /\ buttons
            /\ generated_files' = Append(generated_files, plot_path)
            /\ disk' = IF plot_path # None THEN disk \cup {plot_path} ELSE disk
            /\ stored' = [stored EXCEPT ![file_type].onset_plot = plot_path]
            /\ icon_label' = IF plot_path # None THEN plot_path ELSE icon_label
            /\ callback' = Ran("display_onsets", "ok")
            /\ UNCHANGED <<buttons, root, dtwVars, quantizeVars, segmentVars, pitchVars, notesVars>>

\* Interface.py:158-188, display_onset_chroma(file_type); plot_onset_chroma
\* (audio_onset_detection.py:155-202) always returns the name it saved to.
DisplayOnsetChroma ==
    \E file_type \in FileTypes :
        LET plot_path == File(stored[file_type].audio_path, "piano_roll", 0)
        IN  /\ root = "open"
            /\ Len(generated_files) < MaxTracked
            /\ buttons
            /\ generated_files' = Append(generated_files, plot_path)
            /\ disk' = disk \cup {plot_path}
            /\ stored' = [stored EXCEPT ![file_type].onset_plot = plot_path]
            /\ icon_label' = plot_path
            /\ callback' = Ran("display_onset_chroma", "ok")
            /\ UNCHANGED <<buttons, root, dtwVars, quantizeVars, segmentVars, pitchVars, notesVars>>

\* np.ravel of the stored pair (times, melody), Interface.py:200-201: the two
\* rows of equal length one after the other, as numerators over
\* AppScale.second.
Ravel(onset_chroma) ==
    onset_chroma[1] \o [k \in 1..Len(onset_chroma[2]) |-> AppScale.second * onset_chroma[2][k]]

\* Interface.py:204, sample_onset_chroma_1d[1]: element 1 of the flattened
\* pair, a single number, which dtw.py:42-43 turns into an array of one
\* element.
HandedChroma(onset_chroma) == <<Ravel(onset_chroma)[2]>>

\* dtw.py:75, the image compare_onsets_dtw saves.
DtwPlot == File("dtw_onsets_alignment", "output", 0)

\* Interface.py:191-218, display_dtw_result.  plt.savefig (dtw.py:76) raises
\* FileNotFoundError when there is no directory "output".
DisplayDtwResult ==
    \E output_dir \in BOOLEAN :
        LET s == stored["Sample"]
            p == stored["Practice"]
            ready == Len(s.onset_times) > 0 /\ Len(p.onset_times) > 0
            r == compare_onsets_dtw(s.onset_times, p.onset_times, HandedChroma(s.onset_chroma), HandedChroma(p.onset_chroma), build)
            saved == ready /\ output_dir
        IN  /\ root = "open"
            /\ Len(generated_files) < MaxTracked
            /\ buttons
            /\ sample_onset_times' = IF ready THEN s.onset_times ELSE sample_onset_times
            /\ practice_onset_times' = IF ready THEN p.onset_times ELSE practice_onset_times
            /\ sample_onset_chroma' = IF ready THEN HandedChroma(s.onset_chroma) ELSE sample_onset_chroma
            /\ practice_onset_chroma' = IF ready THEN HandedChroma(p.onset_chroma) ELSE practice_onset_chroma
            /\ dtw_result' = IF saved THEN r
                             ELSE IF ready THEN [r EXCEPT !.outcome = "FileNotFoundError"]
                             ELSE dtw_result
            /\ generated_files' = IF saved THEN Append(generated_files, DtwPlot) ELSE generated_files
            /\ disk' = IF saved THEN disk \cup {DtwPlot} ELSE disk
            /\ icon_label' = IF saved THEN DtwPlot ELSE icon_label
            /\ callback' = Ran("display_dtw_result", IF ready /\ ~output_dir THEN "FileNotFoundError" ELSE "ok")
            /\ UNCHANGED <<stored, buttons, root, sample_onset_strength, practice_onset_strength, alpha, unit, build, scipy, quantizeVars, segmentVars, pitchVars, notesVars>>

\* Interface.py:312-335, cancel_upload.
CancelUpload ==
    /\ root = "open"
    /\ stored' = [t \in FileTypes |-> [stored[t] EXCEPT !.audio_path = NoFile, !.plot_path = None]]
    /\ icon_label' = None
    /\ buttons' = FALSE
    /\ callback' = Ran("cancel_upload", "ok")
    /\ UNCHANGED <<generated_files, disk, root, dtwVars, quantizeVars, segmentVars, pitchVars, notesVars>>

\* Interface.py:338-343, delete_generated_files from entry k on: os.path.exists
\* raises TypeError for None; the files before it are removed already.
RECURSIVE delete_generated_files(_, _, _)
delete_generated_files(files, k, on_disk) ==
    IF k > Len(files) THEN [raised |-> FALSE, disk |-> on_disk]
    ELSE IF files[k] = None THEN [raised |-> TRUE, disk |-> on_disk]
    ELSE delete_generated_files(files, k + 1, on_disk \ {files[k]})

\* Interface.py:357-359, on_close: the list is cleared and the window
\* destroyed only if delete_generated_files returns.
OnClose ==
    LET d == delete_generated_files(generated_files, 1, disk)
    IN  /\ root = "open"
        /\ disk' = d.disk
        /\ generated_files' = IF d.raised THEN generated_files ELSE <<>>
        /\ root' = IF d.raised THEN root ELSE "destroyed"
        /\ callback' = Ran("on_close", IF d.raised THEN "TypeError" ELSE "ok")
        /\ UNCHANGED <<stored, buttons, icon_label, dtwVars, quantizeVars, segmentVars, pitchVars, notesVars>>

\* The window is not under test.
IdleApp ==
    /\ stored = [t \in FileTypes |-> NothingStored]
    /\ generated_files = <<>>
    /\ disk = {}
    /\ buttons = FALSE
    /\ icon_label = None
    /\ root = "open"
    /\ callback = NoCallback

----------------------------------------------------------------------------
(* Spec: both entry points on recordings with one onset in each bucket     *)
(* 0..n-1 (n = 0: no onset at all), so that the quantized sequences range  *)
(* over every sequence of chroma values, plus the scenarios below.         *)
(* SpecQuantize draws general onset times.                                 *)

MaxLen == 3

ChromaVals == {0, 1, 2}

BucketTimes(n) == [k \in 1..n |-> (k - 1) * DefaultStep]

\* Strengths as extract_onset_features returns them (normalized by their
\* maximum, audio_onset_detection.py:113-116): 1.0 and 0.5 in turn.
Accent(n) == [k \in 1..n |-> IF k % 2 = 1 THEN Scale.strength ELSE Scale.strength \div 2]

Recordings ==
    {[times |-> BucketTimes(Len(c)), chroma |-> c, strength |-> Accent(Len(c))] :
        c \in SeqsOf(ChromaVals, 0, MaxLen)}

\* The end-to-end scenarios of the specification: onsets at 0.0, 0.5, 1.0 s,
\* chroma 0,0,0 or 5,5,5.
ScenarioRecordings ==
    {[times |-> <<0, 5, 10>>, chroma |-> c, strength |-> Accent(3)] :
        c \in {<<0, 0, 0>>, <<5, 5, 5>>}}

\* A recording of ten buckets whose neighbouring pairs all have the same sum,
\* and two of six buckets, long enough for fastdtw to coarsen them.
LongRecordings ==
    {[times |-> BucketTimes(Len(c)), chroma |-> c, strength |-> Accent(Len(c))] :
        c \in {<<0, 3, 1, 2, 0, 3, 1, 2, 0, 3>>, <<3, 1, 1, 0, 3, 2>>, <<2, 2, 2, 3, 1, 2>>}}

InitWith(S, P, A, U) ==
    /\ \E s \in S, p \in P :
          /\ sample_onset_times = s.times
          /\ sample_onset_chroma = s.chroma
          /\ sample_onset_strength = s.strength
          /\ practice_onset_times = p.times
          /\ practice_onset_chroma = p.chroma
          /\ practice_onset_strength = p.strength
    /\ alpha \in A
    /\ unit = U
    /\ build \in Builds
    /\ scipy \in ScipyBuilds
    /\ dtw_result = NoResult
    /\ IdleQuantize
    /\ IdleSegment
    /\ IdlePitch
    /\ IdleNotes
    /\ IdleApp

Init ==
    \/ InitWith(Recordings, Recordings, {DefaultAlpha}, 1)
    \/ InitWith(ScenarioRecordings, ScenarioRecordings, {DefaultAlpha}, 1)
    \/ InitWith(LongRecordings, LongRecordings, {DefaultAlpha}, 1)

Next ==
    \/ CompareOnsetsDtw
    \/ CompareOnsetsDtwWeighted

Spec == Init /\ [][Next]_vars

----------------------------------------------------------------------------
(* Properties of the DTW scorer, checked under Spec.                       *)

Returned(op) == dtw_result.op = op /\ dtw_result.outcome = "ok"

IdentityPath(n) == [k \in 1..n |-> <<k - 1, k - 1>>]

\* A path from (0, 0) to (len_x - 1, len_y - 1) whose every step advances at
\* least one coordinate by one and neither by more than one.
ValidPath(path, len_x, len_y) ==
    /\ Len(path) >= 1
    /\ path[1] = <<0, 0>>
    /\ path[Len(path)] = <<len_x - 1, len_y - 1>>
    /\ \A k \in 1..(Len(path) - 1) :
          LET di == path[k + 1][1] - path[k][1]
              dj == path[k + 1][2] - path[k][2]
          IN  di \in {0, 1} /\ dj \in {0, 1} /\ di + dj >= 1

SelfAligned ==
    /\ Returned("dtw")
    /\ dtw_result.sample_sequence = dtw_result.practice_sequence

\* C1: aligning a non-empty quantized sequence S with itself yields distance
\* 0 and the alignment path (i, i) for i = 0..len(S)-1, also when values of
\* S repeat.
C1_IdentityAlignment ==
    SelfAligned =>
        /\ dtw_result.distance = 0
        /\ dtw_result.path = IdentityPath(Len(dtw_result.sample_sequence))

\* C2: the alignment path of two non-empty sequences starts at (0, 0), ends
\* at (len(A)-1, len(B)-1), advances by steps of at most one in each
\* coordinate and at least one in one of them, and so every index the
\* weighted-cost loop reads lies inside the chroma and the strength
\* sequences.
C2_PathWellFormed ==
    (dtw_result.op # "none" /\ dtw_result.outcome # "ValueError") =>
        /\ dtw_result.outcome = "ok"
        /\ ValidPath(dtw_result.path, Len(dtw_result.sample_sequence),
                     Len(dtw_result.practice_sequence))
        /\ dtw_result.op = "weighted" =>
              /\ IndicesInRange(dtw_result.path,
                                Len(dtw_result.sample_strength_sequence),
                                Len(dtw_result.practice_strength_sequence))
              /\ IndicesInRange(dtw_result.path, Len(dtw_result.sample_sequence),
                                Len(dtw_result.practice_sequence))

\* A weighted comparison of sequences of different lengths whose path warps.
C2_Witness ==
    /\ Returned("weighted")
    /\ Len(dtw_result.sample_sequence) > Len(dtw_result.practice_sequence)
    /\ Len(dtw_result.practice_sequence) >= 2
    /\ \E k \in 1..(Len(dtw_result.path) - 1) :
          dtw_result.path[k][2] = dtw_result.path[k + 1][2]

Scenario5 ==
    /\ dtw_result.op = "dtw"
    /\ sample_onset_times = <<0, 5, 10>>
    /\ practice_onset_times = <<0, 5, 10>>
    /\ sample_onset_chroma = <<0, 0, 0>>
    /\ practice_onset_chroma = <<5, 5, 5>>

\* C5, as stated: sample onsets 0.0, 0.5, 1.0 with chroma 0,0,0 against
\* practice onsets 0.0, 0.5, 1.0 with chroma 5,5,5 at step 0.2 yields
\* distance 15 and the path (0,0), (1,1), (2,2).
C5_ScenarioAsStated ==
    Scenario5 =>
        /\ dtw_result.outcome = "ok"
        /\ dtw_result.distance = 15 * unit
        /\ dtw_result.path = IdentityPath(3)

\* C5, amended: the same comparison yields distance 15 over the six-bucket
\* sequences 0,0,0,0,0,0 and 5,0,5,0,0,5, with a path from (0,0) to (5,5),
\* which is the diagonal under the C implementation of fastdtw.
C5_ScenarioQuantized ==
    Scenario5 =>
        /\ dtw_result.outcome = "ok"
        /\ dtw_result.distance = 15 * unit
        /\ dtw_result.sample_sequence = <<0, 0, 0, 0, 0, 0>>
        /\ dtw_result.practice_sequence = <<5, 0, 5, 0, 0, 5>>
        /\ ValidPath(dtw_result.path, 6, 6)
        /\ build = "c" => dtw_result.path = IdentityPath(6)

C5_Witness == Scenario5 /\ dtw_result.outcome = "ok" /\ Len(dtw_result.path) >= 6

\* C6: when a recording contributes no onsets, a comparison request ends in
\* a reported EmptySequence outcome, not in an exception, for the unweighted
\* and for the weighted entry point.
C6_EmptyReported ==
    (/\ dtw_result.op # "none"
     /\ (Len(sample_onset_times) = 0 \/ Len(practice_onset_times) = 0)) =>
        dtw_result.outcome = "EmptySequence"

\* The smallest of three costs.
Min3(a, b, c) == Min2(a, Min2(b, c))

\* Row i of the cumulative-cost grid of x and y, from the row above it: the
\* cells left of column Len(row) + 1 are in row.
RECURSIVE GridRow(_, _, _, _, _)
GridRow(x, y, i, above, row) ==
    LET j == Len(row) + 1
        before == IF i = 1 /\ j = 1 THEN 0
                  ELSE IF i = 1 THEN row[j - 1]
                  ELSE IF j = 1 THEN above[1]
                  ELSE Min3(above[j], row[j - 1], above[j - 1])
    IN  IF j > Len(y) THEN row
        ELSE GridRow(x, y, i, above, Append(row, Abs(x[i] - y[j]) + before))

\* The terminal cell of the grid: rows i.. from the row above them.
RECURSIVE GridTerminal(_, _, _, _)
GridTerminal(x, y, i, above) ==
    IF i > Len(x) THEN above[Len(y)]
    ELSE GridTerminal(x, y, i + 1, GridRow(x, y, i, above, <<>>))

\* The sum of the local distances over the steps k.. of a path.
RECURSIVE PathCost(_, _, _, _)
PathCost(path, k, x, y) ==
    IF k > Len(path) THEN 0
    ELSE Abs(x[path[k][1] + 1] - y[path[k][2] + 1]) + PathCost(path, k + 1, x, y)

\* The distance is the cost of the returned path (the part of C18 that holds).
DistanceIsPathCost ==
    Returned("dtw") =>
        dtw_result.distance = PathCost(dtw_result.path, 1, dtw_result.sample_sequence, dtw_result.practice_sequence)

\* C18: the unweighted distance of two non-empty sequences is the terminal
\* cell of the cumulative-cost grid cost(i, j) = |A[i] - B[j]| + min(cost(i-1, j),
\* cost(i, j-1), cost(i-1, j-1)) with prefix-sum borders (the least cost of a
\* monotonic connected path from (0, 0) to the last cell), and it is the sum
\* of the local distances over the returned path.
C18_ExactGrid ==
    Returned("dtw") =>
        /\ dtw_result.distance = GridTerminal(dtw_result.sample_sequence, dtw_result.practice_sequence, 1, <<>>)
        /\ DistanceIsPathCost

----------------------------------------------------------------------------
(* SpecWeighted: the weighted entry point on recordings whose strengths    *)
(* and alpha vary.  What the unweighted mode returns for the same          *)
(* recordings is computed where a property compares the two.               *)

MaxLenW == 2

WeightChroma == {0, 1}

Alphas == {0, DefaultAlpha, Scale.alpha}

\* audio_onset_detection.py:113-116: strengths are non-negative and divided
\* by their maximum, so they are all 0 or their maximum is 1.0.
NormalizedStrengths(n) ==
    {s \in [1..n -> 0..Scale.strength] :
        \/ \A k \in 1..n : s[k] = 0
        \/ \E k \in 1..n : s[k] = Scale.strength}

WeightedRecordings ==
    UNION {{[times |-> BucketTimes(n), chroma |-> c, strength |-> s] :
               c \in [1..n -> WeightChroma], s \in NormalizedStrengths(n)} :
           n \in 0..MaxLenW}

InitWeighted == InitWith(WeightedRecordings, WeightedRecordings, Alphas, 1)

NextWeighted == CompareOnsetsDtwWeighted

SpecWeighted == InitWeighted /\ [][NextWeighted]_vars

SomeStrength ==
    \/ \E k \in 1..Len(sample_onset_strength) : sample_onset_strength[k] # 0
    \/ \E k \in 1..Len(practice_onset_strength) : practice_onset_strength[k] # 0

\* The sum of the local distances over the returned path, over unit * WeightDen.
UnweightedOverPath ==
    WeightedSum(dtw_result.path, 1, dtw_result.sample_sequence,
                dtw_result.practice_sequence, dtw_result.sample_strength_sequence,
                dtw_result.practice_strength_sequence, 0)

\* C3: for every alpha > 0 and every pair of recordings whose strength
\* sequences hold a non-zero value, the strength-weighted distance is at
\* least the sum of the local distances over the same alignment path.
C3_WeightedAtLeastUnweighted ==
    (Returned("weighted") /\ alpha > 0 /\ SomeStrength) =>
        dtw_result.distance >= UnweightedOverPath

\* A weighted comparison that the strengths made strictly more expensive.
C3_Witness ==
    /\ Returned("weighted") /\ alpha > 0 /\ SomeStrength
    /\ dtw_result.distance > UnweightedOverPath
    /\ UnweightedOverPath > 0

\* What the unweighted mode returns for the same recordings.
Unweighted ==
    compare_onsets_dtw(sample_onset_times, practice_onset_times, sample_onset_chroma, practice_onset_chroma, build)

\* |A[i] - B[j]| * (1 + alpha * (strengthA[i] + strengthB[j]) / 2) summed over
\* the steps k.. of the returned path, as a numerator over WeightDen.
RECURSIVE StrengthWeighted(_)
StrengthWeighted(k) ==
    IF k > Len(dtw_result.path) THEN 0
    ELSE LET i == dtw_result.path[k][1] + 1
             j == dtw_result.path[k][2] + 1
             local == Abs(dtw_result.sample_sequence[i] - dtw_result.practice_sequence[j])
             strengths == dtw_result.sample_strength_sequence[i] + dtw_result.practice_strength_sequence[j]
         IN  local * (2 * Scale.strength * Scale.alpha + alpha * strengths) + StrengthWeighted(k + 1)

\* C19: the strength-weighted distance is the sum over the steps (i, j) of
\* the path of |A[i] - B[j]| * (1 + alpha * (strengthA[i] + strengthB[j]) / 2);
\* the path is the one of the chroma sequences alone, the same for every
\* strength and alpha and the one the unweighted mode returns; with
\* alpha = 0 the weighted distance is the unweighted distance.
C19_WeightedOverSamePath ==
    Returned("weighted") =>
        LET plain == Unweighted
        IN  /\ dtw_result.distance = StrengthWeighted(1)
            /\ dtw_result.path = plain.path
            /\ dtw_result.sample_sequence = plain.sample_sequence
            /\ dtw_result.practice_sequence = plain.practice_sequence
            /\ alpha = 0 => dtw_result.distance = WeightDen * plain.distance

\* C19: alpha = 0 on recordings with strengths, a path of several steps and
\* a distance above 0.
C19_Witness ==
    /\ Returned("weighted") /\ alpha = 0 /\ SomeStrength
    /\ Len(dtw_result.path) >= 2
    /\ dtw_result.distance > 0

----------------------------------------------------------------------------
(* SpecScale: a sequence A against k * A.  The chroma numerators are over  *)
(* Scale.factor, and so is k.                                              *)

MaxLenS == 4

MaxFactor == 8

ScaleVals == {0, 1, 2, 4}

\* The scale factors above 1.
Factors == (Scale.factor + 1)..MaxFactor

Scaled(a, k) == [i \in 1..Len(a) |-> k * a[i]]

InitScale ==
    /\ \E a \in SeqsOf(ScaleVals, 1, MaxLenS), k \in Factors :
          /\ sample_onset_times = BucketTimes(Len(a))
          /\ sample_onset_chroma = Scaled(a, Scale.factor)
          /\ sample_onset_strength = Accent(Len(a))
          /\ practice_onset_times = BucketTimes(Len(a))
          /\ practice_onset_chroma = Scaled(a, k)
          /\ practice_onset_strength = Accent(Len(a))
    /\ alpha = DefaultAlpha
    /\ unit = Scale.factor
    /\ build \in Builds
    /\ scipy \in ScipyBuilds
    /\ dtw_result = NoResult
    /\ IdleQuantize
    /\ IdleSegment
    /\ IdlePitch
    /\ IdleNotes
    /\ IdleApp

SpecScale == InitScale /\ [][Next]_vars

\* A (non-zero) has been compared with k * A.
ComparedWithScaled(k) ==
    /\ Returned("dtw")
    /\ unit = Scale.factor
    /\ \E i \in 1..Len(sample_onset_chroma) : sample_onset_chroma[i] # 0
    /\ Len(practice_onset_chroma) = Len(sample_onset_chroma)
    /\ \A i \in 1..Len(sample_onset_chroma) :
          practice_onset_chroma[i] * Scale.factor = k * sample_onset_chroma[i]

\* What compare_onsets_dtw returns for A against k * A.
DistanceToScaled(k) ==
    compare_onsets_dtw(sample_onset_times, practice_onset_times, sample_onset_chroma,
                       [i \in 1..Len(sample_onset_chroma) |->
                           (k * sample_onset_chroma[i]) \div Scale.factor],
                       build).distance

\* C4, as stated: for every non-zero sequence A and scale factors
\* 1 < k1 < k2, the DTW distance between A and k1 * A is strictly smaller
\* than the DTW distance between A and k2 * A.
C4_ScaleMonotone ==
    \A k1 \in Factors, k2 \in Factors :
        (k1 < k2 /\ ComparedWithScaled(k1)) =>
            dtw_result.distance < DistanceToScaled(k2)

\* C4, amended: the same for non-zero sequences A of non-negative values with
\* at most three buckets.
C4_ScaleMonotoneShort ==
    \A k1 \in Factors, k2 \in Factors :
        (k1 < k2 /\ ComparedWithScaled(k1) /\ Len(dtw_result.sample_sequence) <= 3) =>
            dtw_result.distance < DistanceToScaled(k2)

\* A three-bucket sequence compared with a scaled copy along a warped path.
C4_Witness ==
    /\ \E k1 \in Factors : k1 < MaxFactor /\ ComparedWithScaled(k1)
    /\ Len(dtw_result.sample_sequence) = 3
    /\ dtw_result.path # IdentityPath(3)

----------------------------------------------------------------------------
(* SpecQuantize: create_chroma_sequence on onset times in any order, with  *)
(* as many values as times or one fewer (zip stops at the shorter list).   *)

MaxTick == 5

MaxOnsets == 3

QuantizeVals == {1, 2}

Steps == {1, DefaultStep, 3}

InitQuantize ==
    /\ arg_onset_times \in SeqsOf(0..MaxTick, 0, MaxOnsets)
    /\ \E n \in {Len(arg_onset_times), Len(arg_onset_times) - 1} :
          n >= 0 /\ arg_chroma \in [1..n -> QuantizeVals]
    /\ arg_step_size \in Steps
    /\ chroma_sequence = NotQuantized
    /\ IdleDtw
    /\ IdleSegment
    /\ IdlePitch
    /\ IdleNotes
    /\ IdleApp

NextQuantize == Quantize

SpecQuantize == InitQuantize /\ [][NextQuantize]_vars

\* The (time, value) pairs the quantizer is given, by position.
Pairs == 1..Min2(Len(arg_onset_times), Len(arg_chroma))

\* The pairs whose onset time falls in bucket b (0-based): floor(t / step) = b.
Hits(b) == {k \in Pairs : arg_onset_times[k] \div arg_step_size = b}

----------------------------------------------------------------------------
(* SpecSegment: the segmenter on buffers made of up to MaxRuns runs of a   *)
(* constant sample: one sample of any amplitude, or 2 * W + 1 samples of a *)
(* soft one (silence, or a level between the two thresholds of a loud      *)
(* sample); the empty buffer among them.                                   *)

MaxRuns == 4

Amplitudes == {-25, 0, 1, 6}

SoftAmplitudes == {0, 1}

Run(a, n) == [k \in 1..n |-> a]

Runs == {Run(a, 1) : a \in Amplitudes} \cup {Run(a, 2 * HalfWindow + 1) : a \in SoftAmplitudes}

RECURSIVE Buffers(_)
Buffers(n) ==
    IF n = 0 THEN {<<>>}
    ELSE LET shorter == Buffers(n - 1)
         IN  shorter \cup {b \o r : b \in shorter, r \in Runs}

InitSegment ==
    /\ arg_data \in Buffers(MaxRuns)
    /\ note_windows = NoWindows
    /\ IdleDtw
    /\ IdleQuantize
    /\ IdlePitch
    /\ IdleNotes
    /\ IdleApp

NextSegment == NoteWindows

SpecSegment == InitSegment /\ [][NextSegment]_vars

\* The indices the segmenter can evaluate: all but the first and last W.
Evaluated == HalfWindow..(Len(arg_data) - HalfWindow - 1)

\* The largest |sample| of the window [i - W, i + W].
LocalAmplitude(i) == SetMax({Abs(arg_data[k + 1]) : k \in (i - HalfWindow)..(i + HalfWindow)})

\* No evaluated index has a local amplitude above 0.2 * max(|buffer|).
NeverCrossesEnter ==
    \A i \in Evaluated :
        5 * LocalAmplitude(i) <= SetMax({Abs(arg_data[k]) : k \in 1..Len(arg_data)})

\* C8: a buffer whose local amplitude never crosses the enter threshold (the
\* all-zero buffer and a buffer too short to evaluate any index included)
\* yields zero segments and no error.
C8_SilenceYieldsNothing ==
    (note_windows.outcome # "none" /\ NeverCrossesEnter) =>
        /\ note_windows.outcome = "ok"
        /\ note_windows.num_notes = 0

\* The segments piano_note_recognition cuts (line 22): segment k is
\* [w[k - 1], w[k]) in the code's 0-based numbering of w.
SegmentStart(k) == note_windows.w[k]

SegmentEnd(k) == note_windows.w[k + 1]

\* C13: the segment starts are strictly increasing and lie within
\* [0, len(buffer)], so the segments [start, end) are non-empty, ordered and
\* do not overlap, and the onset times start / Fs are strictly increasing.
C13_StartsIncreasing ==
    note_windows.outcome = "ok" =>
        /\ \A k \in 1..Len(note_windows.w) : note_windows.w[k] \in 0..Len(arg_data)
        /\ \A k \in 1..note_windows.num_notes :
              /\ SegmentStart(k) < SegmentEnd(k)
              /\ k > 1 => SegmentEnd(k - 1) <= SegmentStart(k)
              /\ k > 1 => SegmentStart(k - 1) * Fs < SegmentStart(k) * Fs

\* C13: a buffer with two notes, the first window start after sample 0.
C13_Witness ==
    /\ note_windows.outcome = "ok"
    /\ note_windows.num_notes = 2
    /\ note_windows.w[1] > 0

\* The largest |sample| of the buffer.
GlobalAmplitude == SetMax({Abs(arg_data[k]) : k \in 1..Len(arg_data)})

\* The two-state machine on max(|buffer|) and the window [i - W, i + W]: the
\* boundaries it records from index i on, in state quiet.
RECURSIVE MachineFrom(_, _, _)
MachineFrom(i, quiet, recorded) ==
    LET turns == {k \in i..(Len(arg_data) - HalfWindow - 1) :
                     IF quiet THEN 5 * LocalAmplitude(k) > GlobalAmplitude
                     ELSE 25 * LocalAmplitude(k) < GlobalAmplitude}
    IN  IF turns = {} THEN recorded
        ELSE MachineFrom(SetMin(turns) + 1, ~quiet, Append(recorded, SetMin(turns)))

\* C14: the boundaries recorded are those of the two-state machine that
\* starts Quiet, enters Active at i when the largest |amplitude| of
\* [i - W, i + W] is above 0.2 * max(|buffer|) and returns to Quiet when it is
\* below 0.04 * max(|buffer|), for every buffer, a largest-magnitude sample
\* that is negative included.
C14_TwoStateMachine ==
    note_windows.outcome = "ok" =>
        noteparse(arg_data) = MachineFrom(HalfWindow, TRUE, <<>>)

\* The boundary list between 0 and the buffer length.
Bracketed == <<0>> \o noteparse(arg_data) \o <<Len(arg_data)>>

\* The midpoints of the pairs (1st, 2nd), (3rd, 4th), ... of a bracketed
\* list; an element left without a partner makes no pair.
Midpoints(d) == [k \in 1..(Len(d) \div 2) |-> (d[2 * k - 1] + d[2 * k]) \div 2]

\* C15 as stated: every midpoint starts a segment that ends at the next
\* midpoint, the last one at the buffer end, also when the number of
\* recorded boundaries is odd.
C15_EveryMidpointASegment ==
    note_windows.outcome = "ok" =>
        LET mid == Midpoints(Bracketed)
        IN  /\ note_windows.w = mid
            /\ note_windows.num_notes = Len(mid)

\* C15, amended: the midpoints are the limits of the segments, so k midpoints
\* make k - 1 segments, segment j from midpoint j to midpoint j + 1; the
\* last midpoint only ends a segment and nothing after it is a segment.
C15_MidpointsDelimit ==
    note_windows.outcome = "ok" =>
        LET mid == Midpoints(Bracketed)
        IN  /\ note_windows.w = mid
            /\ note_windows.num_notes = Len(mid) - 1
            /\ \A j \in 1..note_windows.num_notes :
                  SegmentStart(j) = mid[j] /\ SegmentEnd(j) = mid[j + 1]

\* C15: a note found although the last one is still sounding at the end of
\* the buffer (an odd number of boundaries).
C15_Witness ==
    /\ note_windows.outcome = "ok"
    /\ Len(noteparse(arg_data)) % 2 = 1
    /\ note_windows.num_notes >= 1

----------------------------------------------------------------------------
(* SpecPitch: findpitch on 0 Hz, 0.0001 Hz, 440 Hz and the frequencies at  *)
(* and next to every bin edge and band edge, in the canonical octave and   *)
(* up to MaxShift octaves above and below it.                              *)

MaxShift == 2

Probes ==
    {e + d : e \in {BinEdges[k] : k \in 1..13} \cup {BandHigh, 2 * BandLow},
             d \in {-1, 0, 1, 2, 3}}
    \cup {4400000}

Frequencies ==
    {0, 1}
    \cup {p * Pow2(j) : p \in Probes, j \in 0..MaxShift}
    \cup {p \div Pow2(j) : p \in Probes, j \in 0..MaxShift}

InitPitch ==
    /\ arg_freq \in Frequencies
    /\ pitch_result = NoPitch
    /\ IdleDtw
    /\ IdleQuantize
    /\ IdleSegment
    /\ IdleNotes
    /\ IdleApp

NextPitch == FindPitch

SpecPitch == InitPitch /\ [][NextPitch]_vars

\* The frequency is inside the canonical band [254.284, 508.5675) Hz.
InCanonicalBand == BandLow <= arg_freq /\ arg_freq < BandHigh

\* The one of the twelve bins dividing the band that holds the frequency.
SemitoneBin ==
    CHOOSE k \in 1..12 :
        BinEdges[k] <= arg_freq /\ (k = 12 \/ arg_freq < BinEdges[k + 1])

\* C9: 440 Hz is returned as A (the tenth bin, counting C as 1) with octave
\* 0, and every frequency inside the canonical band [254.284, 508.5675) Hz is
\* returned with octave 0 and the pitch class of the bin that contains it.
C9_InBandClassified ==
    (pitch_result.outcome # "none" /\ InCanonicalBand) =>
        /\ pitch_result.outcome = "ok"
        /\ pitch_result.octave = 0
        /\ pitch_result.pitch = SemitoneBin
        /\ arg_freq = 4400000 => pitch_result.pitch = 10

\* C10: for every dominant frequency, 0 Hz and very small and large ones
\* included, octave normalization stops by itself, with a frequency in the
\* canonical band or by signalling PitchOutOfRange; it never recurses without
\* bound.
C10_NormalizationStops ==
    pitch_result.outcome # "none" =>
        pitch_result.normalization \in {"in_band", "PitchOutOfRange"}

\* The steps octave normalization took: every call of helpfindoctave but the
\* first follows one halving or one doubling.
NormalizationSteps == pitch_result.calls - 1

\* The frequency the classifier is given is freq / 2^octave and lies in the
\* canonical band.
ClassifiedInBand ==
    LET g == Shifted(arg_freq, pitch_result.octave)
    IN  /\ ~Less(g, BandLow) /\ AtMost(g, BandHigh)
        /\ pitch_result.pitch = choosepitch(g)

\* C16 as stated: each halving decrements the octave counter and each
\* doubling increments it, and the classifier is given freq / 2^octave.
C16_HalvingDecrements ==
    pitch_result.outcome = "ok" =>
        /\ arg_freq > BandHigh => pitch_result.octave = -NormalizationSteps
        /\ arg_freq < BandLow => pitch_result.octave = NormalizationSteps
        /\ ClassifiedInBand

\* C16, amended: each halving increments the octave counter and each
\* doubling decrements it, so a frequency above the band has a positive
\* octave and one below it a negative octave, and the classifier is given
\* freq / 2^octave.
C16_HalvingIncrements ==
    pitch_result.outcome = "ok" =>
        /\ arg_freq > BandHigh => pitch_result.octave = NormalizationSteps /\ NormalizationSteps > 0
        /\ arg_freq < BandLow => pitch_result.octave = -NormalizationSteps /\ NormalizationSteps > 0
        /\ (BandLow <= arg_freq /\ arg_freq <= BandHigh) => pitch_result.octave = 0 /\ NormalizationSteps = 0
        /\ ClassifiedInBand

\* C16: a frequency doubled twice and classified.
C16_Witness ==
    /\ pitch_result.outcome = "ok"
    /\ pitch_result.octave = -2
    /\ arg_freq < BandLow

\* C17: every frequency octave normalization accepts as in band, the upper
\* band edge 508.5675 Hz included, falls into one of the twelve bins and
\* gets a pitch class; the bins leave no gap below the band edge.
C17_BinsCoverBand ==
    pitch_result.normalization = "in_band" =>
        /\ pitch_result.outcome = "ok"
        /\ pitch_result.pitch \in 1..12

----------------------------------------------------------------------------
(* SpecNotes: piano_note_recognition on the empty buffer and on buffers of *)
(* up to MaxNotes notes, each note one loud sample followed by a window of *)
(* silence, with every choice of spectral peaks for the segments.          *)

MaxNotes == 3

\* n times: one sample of amplitude 6, then a window of zeros; a last zero.
RECURSIVE Melody(_)
Melody(n) == IF n = 0 THEN <<0>> ELSE Run(6, 1) \o Run(0, 2 * HalfWindow) \o Melody(n - 1)

NoteBuffers == {<<>>} \cup {Melody(n) : n \in 0..MaxNotes}

\* 0 Hz, C4, A4, B4, 508.567 Hz, 508.5678 Hz, A5 and Fs / 2.
NoteFrequencies == {0, 2616300, 4400000, 4938800, 5085670, 5085678, 8800000, Nyquist}

\* The number of segments piano_note_recognition finds in a buffer.
SegmentCount(data) == IF NoteparseRaises(data) THEN 0 ELSE Len(notewindows(data)) - 1

InitNotes ==
    /\ arg_data \in NoteBuffers
    /\ arg_peaks \in SeqsOf(NoteFrequencies, SegmentCount(arg_data), SegmentCount(arg_data))
    /\ notes = NoNotes
    /\ note_windows = NoWindows
    /\ IdleDtw
    /\ IdleQuantize
    /\ IdlePitch
    /\ IdleApp

NextNotes == PianoNoteRecognition

SpecNotes == InitNotes /\ [][NextNotes]_vars

\* The run is over and its buffer was not empty.
Recognized == notes.outcome # "none" /\ arg_data # <<>>

\* Pitch estimation succeeds on a dominant frequency.
Estimable(f) == findpitch(f).outcome = "ok"

\* The filter of line 36 accepts every segment of the run.
FilterAccepts == \A i \in 1..Len(arg_peaks) : ~BandpassRaises(arg_peaks[i])

\* C11: a segment whose pitch estimation fails (PitchOutOfRange, unbounded
\* recursion) leaves no NoteEvent, and the other segments are still
\* processed: the notes produced are those of the segments whose pitch
\* estimation succeeds, in order.
C11_FailureIsLocal ==
    (Recognized /\ FilterAccepts) =>
        LET kept == SelectSeq(arg_peaks, Estimable)
        IN  /\ notes.outcome = "ok"
            /\ Len(notes.pitches) = Len(kept)
            /\ \A k \in 1..Len(kept) :
                  notes.pitches[k] = NoteNumber(findpitch(kept[k]).pitch, findpitch(kept[k]).octave)

\* The pitch class of a frequency counted from C = 0: the bin of the
\* frequency brought into the canonical band.
PitchClassFromC(f) ==
    LET g == Shifted(f, findpitch(f).octave)
    IN  CHOOSE c \in 0..11 : ~Less(g, BinEdges[c + 1]) /\ Less(g, BinEdges[c + 2])

\* C12: the pitch class of a note is in 0..11 with 0 = C, and its note
\* number is that pitch class plus 12 * (octave + 4).
C12_ZeroBasedNoteNumber ==
    (Recognized /\ notes.outcome = "ok") =>
        \A k \in 1..Len(notes.pitches) :
            LET r == findpitch(arg_peaks[k])
            IN  /\ r.pitch \in 0..11
                /\ r.pitch = PitchClassFromC(arg_peaks[k])
                /\ notes.pitches[k] = PitchClassFromC(arg_peaks[k]) + 12 * (r.octave + 4)

\* C20: the band-pass step changes no outcome: when pitch estimation by
\* itself succeeds on every segment (a peak at 0 Hz or within 0.1 Hz of Fs / 2
\* included), the run with the filter yields the same pitch classes and
\* octaves.
C20_FilterChangesNothing ==
    (Recognized /\ \A i \in 1..Len(arg_peaks) : Estimable(arg_peaks[i])) =>
        /\ notes.outcome = "ok"
        /\ Len(notes.pitches) = Len(arg_peaks)
        /\ \A k \in 1..Len(arg_peaks) :
              notes.pitches[k] = NoteNumber(findpitch(arg_peaks[k]).pitch, findpitch(arg_peaks[k]).octave)

----------------------------------------------------------------------------
(* SpecApp: the window from start-up, the user pressing buttons in any     *)
(* order.  The comparison runs on what upload_file stored.                 *)

InitApp ==
    /\ IdleApp
    /\ sample_onset_times = <<>>
    /\ practice_onset_times = <<>>
    /\ sample_onset_chroma = <<>>
    /\ practice_onset_chroma = <<>>
    /\ sample_onset_strength = <<>>
    /\ practice_onset_strength = <<>>
    /\ alpha = DefaultAlpha
    /\ unit = AppScale.second
    /\ build \in Builds
    /\ scipy = "lenient"
    /\ dtw_result = NoResult
    /\ IdleQuantize
    /\ IdleSegment
    /\ IdlePitch
    /\ IdleNotes

NextApp ==
    \/ UploadFile
    \/ DisplayWaveform
    \/ DisplayOnsets
    \/ DisplayOnsetChroma
    \/ DisplayDtwResult
    \/ CancelUpload
    \/ OnClose

SpecApp == InitApp /\ [][NextApp]_vars

\* The per-onset pitch sequence upload_file stored for a file type, as
\* numerators over AppScale.second.
StoredMelody(file_type) ==
    [k \in 1..Len(stored[file_type].onset_chroma[2]) |->
        AppScale.second * stored[file_type].onset_chroma[2][k]]

\* display_dtw_result has just run the comparison.
Compared == callback.handler = "display_dtw_result" /\ dtw_result.op = "dtw"

\* C21: when the DTW action runs after both recordings were uploaded, the
\* chroma handed to the comparison for each recording is the whole per-onset
\* pitch sequence stored at upload, one value per retained onset time, and
\* the quantized sequences are the ones built from every (onset time, chroma)
\* pair.
C21_FullChromaHanded ==
    Compared =>
        /\ sample_onset_chroma = StoredMelody("Sample")
        /\ practice_onset_chroma = StoredMelody("Practice")
        /\ Len(sample_onset_chroma) = Len(sample_onset_times)
        /\ Len(practice_onset_chroma) = Len(practice_onset_times)
        /\ dtw_result.sample_sequence =
              create_chroma_sequence(stored["Sample"].onset_times, StoredMelody("Sample"), DefaultStep)
        /\ dtw_result.practice_sequence =
              create_chroma_sequence(stored["Practice"].onset_times, StoredMelody("Practice"), DefaultStep)

\* The close box is pressed: one run of on_close.
Closing == root = "open" /\ callback'.handler = "on_close" /\ OnClose

\* C22: after any sequence of upload, display, compare and cancel actions,
\* failed image generations included, the window-close handler removes every
\* tracked generated file that exists, empties the tracking list and then
\* destroys the window; and every entry ever added to the tracking list is a
\* file path.
C22_CloseCleansUp ==
    /\ [](\A k \in 1..Len(generated_files) : generated_files[k] # None)
    /\ [][Closing =>
            /\ Tracked(generated_files) \cap disk' = {}
            /\ generated_files' = <<>>
            /\ root' = "destroyed"]_vars

=============================================================================
